---- MODULE Spec2Model ----
(***************************************************************************)
(* Record management of src/Project.py: Expense, FileStorage and           *)
(* SectionManager, MultiFileStorage.  Spec, SpecImport and SpecManager     *)
(* follow one backing file of one (section, user) and the SectionManager   *)
(* that is live over it; SpecSections follows the files of every section   *)
(* of every user and the session that works on one of them; SpecStore runs *)
(* load_all and save_all on files and record lists, SpecValidate runs      *)
(* validate_expenses on row lists, SpecParse parse_csv_file on tables and  *)
(* SpecIngest validate_expenses followed by bulk_add_expenses;             *)
(* SpecAnalyzer adds the Analyzer, SpecFaults the failures of save_all,    *)
(* SpecPeers a second manager over the same file; SpecApp follows the      *)
(* table selection of ExpenseApp and SpecWindow its bulk-import window.    *)
(*                                                                         *)
(* Representation of values                                                *)
(*   text       a sequence of tokens; the token " " is white space, every  *)
(*              other token is a run of non-blank characters, TooLong a    *)
(*              run of more characters than csv.reader takes in a field    *)
(*   date       <<year, month, day>>                                       *)
(*   amount     a float, held as an integer number of thousandths          *)
(*   cell       one cell of a CSV row or one value of an import dict:      *)
(*              [t, n, s] where t says what the cell holds                 *)
(*                "int"   the decimal numeral of n                         *)
(*                "dec2"  the decimal numeral of n/100, two digits after   *)
(*                        the point                                        *)
(*                "iso"   the ten characters YYYY-MM-DD whose digits are   *)
(*                        those of n = YYYYMMDD                            *)
(*                "str"   the text s (no numeral, no date)                 *)
(*                "float" a Python float, n thousandths (dict values only) *)
(*                "nan"   the float NaN pandas gives for a missing cell;   *)
(*                        in a file, the three characters nan              *)
(*   row        a sequence of cells; file: a sequence of rows, the first   *)
(*              being the header the csv reader skips                      *)
(***************************************************************************)
EXTENDS Integers, Sequences, FiniteSets, TLC

VARIABLES file, mgr, last, hist, disk, sess

vars == <<file, mgr, last, hist, disk, sess>>

(* ------------------------------ bounds --------------------------------- *)

\* Largest id a manager may hand out before the model stops adding.
MaxId == 2

\* Longest candidate list given to bulk_add_expenses in Spec.
MaxBulk == 2

\* Longest candidate list given to bulk_add_expenses in SpecImport.
MaxRows == 2

\* Number of steps SpecSections follows a disk for.
MaxSteps == 3

\* Most lines below the header of a table given to parse_csv_file.
MaxLines == 2

\* Most rows below the header of a file, and most records of a list given to
\* save_all, in SpecStore.
MaxStored == 2

(* ------------------------------ cells ---------------------------------- *)

IntCell(k) == [t |-> "int", n |-> k, s |-> <<>>]
Dec2Cell(c) == [t |-> "dec2", n |-> c, s |-> <<>>]
IsoCell(k) == [t |-> "iso", n |-> k, s |-> <<>>]
StrCell(x) == [t |-> "str", n |-> 0, s |-> x]
FloatCell(a) == [t |-> "float", n |-> a, s |-> <<>>]
NanCell == [t |-> "nan", n |-> 0, s |-> <<>>]

IsStr(c) == c.t \in {"int", "dec2", "iso", "str"}

\* str.strip(): drop leading and trailing white space.
RECURSIVE LStrip(_)
LStrip(x) == IF x # <<>> /\ Head(x) = " " THEN LStrip(Tail(x)) ELSE x

RECURSIVE RStrip(_)
RStrip(x) ==
    IF x # <<>> /\ x[Len(x)] = " " THEN RStrip(SubSeq(x, 1, Len(x) - 1)) ELSE x

Strip(x) == RStrip(LStrip(x))

\* A run of more than csv.field_size_limit() = 131072 characters.
TooLong == "x * 131073"

OverLimit(c) == \E i \in 1..Len(c.s) : c.s[i] = TooLong

\* The characters of a cell read as plain text (the category and description
\* columns are read verbatim; the model keeps "str" cells in them).
TextOf(c) == c.s

(* ------------------------------ dates ---------------------------------- *)

IsLeap(y) == (y % 4 = 0 /\ y % 100 # 0) \/ y % 400 = 0

DaysInMonth(y, m) ==
    IF m = 2 THEN (IF IsLeap(y) THEN 29 ELSE 28)
    ELSE IF m \in {4, 6, 9, 11} THEN 30 ELSE 31

\* date.isoformat(): YYYY-MM-DD.
isoformat(d) == IsoCell(d[1] * 10000 + d[2] * 100 + d[3])

\* date.fromisoformat() accepts a string of the shape YYYY-MM-DD that names a
\* day of the calendar; anything else raises.
IsoParses(c) ==
    /\ c.t = "iso"
    /\ LET y == c.n \div 10000
           m == (c.n \div 100) % 100
           d == c.n % 100
       IN  /\ y >= 1 /\ y <= 9999
           /\ m >= 1 /\ m <= 12
           /\ d >= 1 /\ d <= DaysInMonth(y, m)

fromisoformat(c) == <<c.n \div 10000, (c.n \div 100) % 100, c.n % 100>>

(* ------------------------------ numbers -------------------------------- *)

\* f"{amount:.2f}": the nearest hundredth; an exact tie (a multiple of 1/8)
\* goes to the even digit.
Round2(a) ==
    LET q == a \div 10
        r == a % 10
    IN  IF r < 5 THEN q
        ELSE IF r > 5 THEN q + 1
        ELSE IF q % 2 = 0 THEN q ELSE q + 1

\* int(cell)
IntParses(c) == c.t = "int"

\* The float NaN, held as a number no amount of the model comes near; every
\* comparison and every conversion asks for it first.
NaN == 0 - 1000000000

\* float(cell) returns; float(NaN) and float("nan") return NaN.
FloatParses(c) == c.t \in {"int", "dec2", "float", "nan"}

FloatOf(c) ==
    IF c.t = "int" THEN c.n * 1000
    ELSE IF c.t = "dec2" THEN c.n * 10
    ELSE IF c.t = "nan" THEN NaN
    ELSE c.n

\* f"{amount:.2f}" writes nan for NaN.
Format2(a) == IF a = NaN THEN NanCell ELSE Dec2Cell(Round2(a))

(* ------------------------------ Expense -------------------------------- *)

Expense(i, d, c, ds, a) ==
    [id |-> i, date |-> d, category |-> c, description |-> ds, amount |-> a]

to_row(e) ==
    << IntCell(e.id), isoformat(e.date), StrCell(e.category),
       StrCell(e.description), Format2(e.amount) >>

\* from_row raises when int(), fromisoformat() or float() does.
RowParses(row) ==
    /\ IntParses(row[1])
    /\ IsoParses(row[2])
    /\ FloatParses(row[5])

from_row(row) ==
    Expense(row[1].n, fromisoformat(row[2]), TextOf(row[3]), TextOf(row[4]),
            FloatOf(row[5]))

(* ------------------------------ FileStorage ---------------------------- *)

headers ==
    << StrCell(<<"id">>), StrCell(<<"date">>), StrCell(<<"category">>),
       StrCell(<<"description">>), StrCell(<<"amount">>) >>

RECURSIVE LoadRows(_)
LoadRows(rows) ==
    IF rows = <<>> THEN <<>>
    ELSE LET row == Head(rows)
         IN  IF Len(row) = 5 /\ RowParses(row)
             THEN <<from_row(row)>> \o LoadRows(Tail(rows))
             ELSE LoadRows(Tail(rows))

\* The first row is skipped whatever it holds.  <<>> is the file that is
\* absent (FileNotFoundError is caught) and the file of no bytes: both load
\* as [].
load_all(f) == IF f = <<>> THEN <<>> ELSE LoadRows(Tail(f))

\* "for row in reader" stands outside the inner try: csv.reader raises
\* _csv.Error on a field over its limit, and load_all catches only
\* FileNotFoundError.
load_raises(f) ==
    \E i \in 1..Len(f) : \E j \in 1..Len(f[i]) : OverLimit(f[i][j])

ToRows(expenses) == [i \in 1..Len(expenses) |-> to_row(expenses[i])]

\* Outcomes of a write: "ok"; "open" - open(path, "w") raises and the file is
\* as it was; "write" - the file was truncated by open and the buffered rows
\* never reached it.
IoOutcomes == {"ok", "open", "write"}

save_all(f, expenses, io) ==
    IF io = "ok" THEN [f |-> <<headers>> \o ToRows(expenses), raised |-> FALSE]
    ELSE IF io = "open" THEN [f |-> f, raised |-> TRUE]
    ELSE [f |-> <<>>, raised |-> TRUE]

(* ------------------------------ MultiFileStorage ----------------------- *)

Sections == {"personal", "family", "business"}

\* SECTIONS[section]["filename"]
Filename(section) ==
    CASE section = "personal" -> "personal_expenses"
      [] section = "family" -> "family_expenses"
      [] section = "business" -> "business_expenses"

\* A slip of _get_user_filepath: the user name is left out of the path.
get_user_filepath_shared(base_filename, username) == <<base_filename, ".csv">>

\* f"{base_filename}_{self.username}.csv"
get_user_filepath(base_filename, username) ==
    <<base_filename, "_">> \o username \o <<".csv">>

\* The path of the FileStorage get_storage(section) returns for a user.
get_storage(username, section) == get_user_filepath(Filename(section), username)

\* _ensure_file and the body of the loop of _init_all_files: a file that does
\* not exist is created with the header row.  d maps every path to its file,
\* <<>> where there is none.
ensure_file(d, filepath) ==
    IF d[filepath] = <<>> THEN [d EXCEPT ![filepath] = <<headers>>] ELSE d

init_all_files(d, username) ==
    [p \in DOMAIN d |->
        IF p \in {get_storage(username, s) : s \in Sections} /\ d[p] = <<>>
        THEN <<headers>> ELSE d[p]]

(* ------------------------------ SectionManager ------------------------- *)

default_categories ==
    { <<"Food">>, <<"Transport">>, <<"Rent">>, <<"Utilities">>,
      <<"Entertainment">>, <<"Misc">> }

Ids(expenses) == {expenses[i].id : i \in 1..Len(expenses)}

Categories(expenses) == {expenses[i].category : i \in 1..Len(expenses)}

SetMax(S) == CHOOSE x \in S : \A y \in S : y <= x

\* max((e.id for e in self.expenses), default=0) + 1
compute_next_id(expenses) ==
    IF expenses = <<>> THEN 1 ELSE SetMax(Ids(expenses)) + 1

\* SectionManager.__init__ over the backing file f.
SectionManager(f) ==
    LET expenses == load_all(f)
    IN  [ expenses |-> expenses,
          next_id |-> compute_next_id(expenses),
          categories |-> IF Categories(expenses) = {} THEN default_categories
                         ELSE Categories(expenses) ]

\* What a call leaves behind: the manager, the file, the value returned,
\* whether it raised instead of returning, and how many times it wrote.
Outcome(m, s, r, w) ==
    [m |-> m, f |-> s.f, ret |-> r, raised |-> s.raised, writes |-> w]

NoWrite(f) == [f |-> f, raised |-> FALSE]

\* Slips of add_expense the properties below are checked against: without
\* "self.next_id += 1"; with the id taken from _compute_next_id() at every
\* call; with insert(0, exp) for append(exp).
add_expense_same_id(m, f, date, category, description, amount, io) ==
    LET exp == Expense(m.next_id, date, category, description, amount)
        m1 == [ expenses |-> Append(m.expenses, exp),
                categories |-> m.categories \cup {category},
                next_id |-> m.next_id ]
    IN  Outcome(m1, save_all(f, m1.expenses, io), exp, 1)

add_expense_recomputed(m, f, date, category, description, amount, io) ==
    LET exp == Expense(compute_next_id(m.expenses), date, category, description,
                       amount)
        m1 == [ expenses |-> Append(m.expenses, exp),
                categories |-> m.categories \cup {category},
                next_id |-> exp.id + 1 ]
    IN  Outcome(m1, save_all(f, m1.expenses, io), exp, 1)

add_expense_in_front(m, f, date, category, description, amount, io) ==
    LET exp == Expense(m.next_id, date, category, description, amount)
        m1 == [ expenses |-> <<exp>> \o m.expenses,
                categories |-> m.categories \cup {category},
                next_id |-> m.next_id + 1 ]
    IN  Outcome(m1, save_all(f, m1.expenses, io), exp, 1)

\* A variant of add_expense that reads the file again before it appends.
add_expense_reloaded(m, f, date, category, description, amount, io) ==
    LET m0 == SectionManager(f)
        exp == Expense(m0.next_id, date, category, description, amount)
        m1 == [ expenses |-> Append(m0.expenses, exp),
                categories |-> m.categories \cup m0.categories \cup {category},
                next_id |-> m0.next_id + 1 ]
    IN  Outcome(m1, save_all(f, m1.expenses, io), exp, 1)

\* A variant of add_expense that restores the manager when save_all raises.
add_expense_rolled_back(m, f, date, category, description, amount, io) ==
    LET exp == Expense(m.next_id, date, category, description, amount)
        m1 == [ expenses |-> Append(m.expenses, exp),
                categories |-> m.categories \cup {category},
                next_id |-> m.next_id + 1 ]
        s == save_all(f, m1.expenses, io)
    IN  Outcome(IF s.raised THEN m ELSE m1, s, exp, 1)

add_expense(m, f, date, category, description, amount, io) ==
    LET exp == Expense(m.next_id, date, category, description, amount)
        m1 == [ expenses |-> Append(m.expenses, exp),
                categories |-> m.categories \cup {category},
                next_id |-> m.next_id + 1 ]
    IN  Outcome(m1, save_all(f, m1.expenses, io), exp, 1)

\* The body of the try block of bulk_add_expenses raises for this candidate.
RowRaises(c) ==
    \/ ~(IsStr(c.date) /\ IsoParses(c.date))
    \/ ~IsStr(c.category)
    \/ ~IsStr(c.description)
    \/ ~FloatParses(c.amount)

\* A slip of the loop: "break" for "continue" in the except branch.
RECURSIVE BulkLoopBreak(_, _)
BulkLoopBreak(b, data) ==
    IF data = <<>> THEN b
    ELSE LET c == Head(data)
         IN  IF RowRaises(c)
             THEN [b EXCEPT !.skipped_count = @ + 1]
             ELSE LET category == Strip(TextOf(c.category))
                      exp == Expense(b.m.next_id, fromisoformat(c.date), category,
                                     Strip(TextOf(c.description)), FloatOf(c.amount))
                  IN  BulkLoopBreak(
                        [ m |-> [ expenses |-> Append(b.m.expenses, exp),
                                  categories |-> b.m.categories \cup {category},
                                  next_id |-> b.m.next_id + 1 ],
                          success_count |-> b.success_count + 1,
                          skipped_count |-> b.skipped_count ],
                        Tail(data))

\* The loop of bulk_add_expenses; b holds the manager and the two counters.
RECURSIVE BulkLoop(_, _)
BulkLoop(b, data) ==
    IF data = <<>> THEN b
    ELSE LET c == Head(data)
         IN  IF RowRaises(c)
             THEN BulkLoop([b EXCEPT !.skipped_count = @ + 1], Tail(data))
             ELSE LET category == Strip(TextOf(c.category))
                      exp == Expense(b.m.next_id, fromisoformat(c.date), category,
                                     Strip(TextOf(c.description)), FloatOf(c.amount))
                  IN  BulkLoop(
                        [ m |-> [ expenses |-> Append(b.m.expenses, exp),
                                  categories |-> b.m.categories \cup {category},
                                  next_id |-> b.m.next_id + 1 ],
                          success_count |-> b.success_count + 1,
                          skipped_count |-> b.skipped_count ],
                        Tail(data))

\* A slip of bulk_add_expenses: save_all inside the loop, once per record.
bulk_add_expenses_each(m, f, expenses_data, io) ==
    LET b == BulkLoop([m |-> m, success_count |-> 0, skipped_count |-> 0],
                      expenses_data)
        r == <<b.success_count, b.skipped_count>>
    IN  IF b.success_count > 0
        THEN Outcome(b.m, save_all(f, b.m.expenses, io), r, b.success_count)
        ELSE Outcome(b.m, NoWrite(f), r, 0)

bulk_add_expenses(m, f, expenses_data, io) ==
    LET b == BulkLoop([m |-> m, success_count |-> 0, skipped_count |-> 0],
                      expenses_data)
        r == <<b.success_count, b.skipped_count>>
    IN  IF b.success_count > 0
        THEN Outcome(b.m, save_all(f, b.m.expenses, io), r, 1)
        ELSE Outcome(b.m, NoWrite(f), r, 0)

\* What the body of the loop of validate_expenses does with one row: "valid"
\* when it appends the row to valid_expenses, otherwise the reason of the
\* message it appends to errors.  fromisoformat of a value that is no string
\* raises TypeError, strip of one raises AttributeError, and "except
\* Exception" reports str(e); fromisoformat of a string that is no date and
\* float of a string that is no number raise ValueError, and "except
\* ValueError" reports both as an invalid date.  NaN <= 0 is False.
\* A slip of validate_expenses: the date is not looked at.
Verdict_undated(c) ==
    IF ~FloatParses(c.amount) THEN "Invalid date format"
    ELSE IF FloatOf(c.amount) # NaN /\ FloatOf(c.amount) <= 0
         THEN "Amount must be positive"
    ELSE IF ~IsStr(c.category) THEN "exception"
    ELSE IF Strip(TextOf(c.category)) = <<>> THEN "Category cannot be empty"
    ELSE IF ~IsStr(c.description) THEN "exception"
    ELSE IF Strip(TextOf(c.description)) = <<>>
         THEN "Item/Description cannot be empty"
    ELSE "valid"

Verdict(c) ==
    IF ~IsStr(c.date) THEN "exception"
    ELSE IF ~IsoParses(c.date) THEN "Invalid date format"
    ELSE IF ~FloatParses(c.amount) THEN "Invalid date format"
    ELSE IF FloatOf(c.amount) # NaN /\ FloatOf(c.amount) <= 0
         THEN "Amount must be positive"
    ELSE IF ~IsStr(c.category) THEN "exception"
    ELSE IF Strip(TextOf(c.category)) = <<>> THEN "Category cannot be empty"
    ELSE IF ~IsStr(c.description) THEN "exception"
    ELSE IF Strip(TextOf(c.description)) = <<>>
         THEN "Item/Description cannot be empty"
    ELSE "valid"

\* The loop of validate_expenses from row i on; v holds valid_expenses and
\* errors, a message being its row number and its reason.
RECURSIVE ValidateLoop(_, _, _)
ValidateLoop(v, expenses, i) ==
    IF i > Len(expenses) THEN v
    ELSE LET r == Verdict(expenses[i])
         IN  ValidateLoop(
               IF r = "valid"
               THEN [v EXCEPT !.valid = Append(@, expenses[i])]
               ELSE [v EXCEPT !.errors = Append(@, [row |-> i, reason |-> r])],
               expenses, i + 1)

validate_expenses(expenses) ==
    ValidateLoop([valid |-> <<>>, errors |-> <<>>], expenses, 1)

\* row.get(key, default) on a row of the data frame: the cell of the column
\* of that name, the default when no column has it.
Get(columns, row, key, default) ==
    IF \E j \in 1..Len(columns) : columns[j] = key
    THEN row[CHOOSE j \in 1..Len(columns) :
                 columns[j] = key /\ \A k \in 1..(j - 1) : columns[k] # key]
    ELSE default

\* A slip of the amount look-up: the three names asked for in the reverse
\* order.
lookup_amount_reversed(columns, row) ==
    Get(columns, row, "amount",
        Get(columns, row, "Cost", Get(columns, row, "cost", IntCell(0))))

\* row.get('cost', row.get('Cost', row.get('amount', 0)))
lookup_amount(columns, row) ==
    Get(columns, row, "cost",
        Get(columns, row, "Cost", Get(columns, row, "amount", IntCell(0))))

\* row.get('item', row.get('Item', row.get('description', '')))
lookup_description(columns, row) ==
    Get(columns, row, "item",
        Get(columns, row, "Item", Get(columns, row, "description", StrCell(<<>>))))

\* row.get('category', row.get('Category', ''))
lookup_category(columns, row) ==
    Get(columns, row, "category", Get(columns, row, "Category", StrCell(<<>>)))

\* The dict the loop of parse_csv_file makes of a row; float() has returned.
parse_row(columns, row) ==
    LET a == lookup_amount(columns, row)
    IN  [ date |-> Get(columns, row, "date", StrCell(<<>>)),
          category |-> lookup_category(columns, row),
          description |-> lookup_description(columns, row),
          amount |-> IF a.t = "nan" THEN NanCell ELSE FloatCell(FloatOf(a)) ]

\* parse_csv_file on a table [readable, columns, rows]: read_csv raises on a
\* file it cannot read; float() of an amount that is no number raises inside
\* the loop; every exception leaves as ValueError("CSV parsing error: ...").
parse_csv_file(t) ==
    IF ~t.readable THEN [rows |-> <<>>, raised |-> TRUE]
    ELSE IF \E i \in 1..Len(t.rows) : ~FloatParses(lookup_amount(t.columns, t.rows[i]))
    THEN [rows |-> <<>>, raised |-> TRUE]
    ELSE [rows |-> [i \in 1..Len(t.rows) |-> parse_row(t.columns, t.rows[i])],
          raised |-> FALSE]

\* A slip of update_expense: the record is replaced and save_all is not called.
update_expense_unsaved(m, f, expense_id, date, category, description, amount, io) ==
    LET hits == {i \in 1..Len(m.expenses) : m.expenses[i].id = expense_id}
    IN  IF hits = {} THEN Outcome(m, NoWrite(f), FALSE, 0)
        ELSE LET i == CHOOSE j \in hits : \A k \in hits : j <= k
                 m1 == [ expenses |->
                           [m.expenses EXCEPT ![i] =
                              Expense(expense_id, date, category, description, amount)],
                         categories |-> m.categories \cup {category},
                         next_id |-> m.next_id ]
             IN  Outcome(m1, NoWrite(f), TRUE, 0)

\* A slip of update_expense: the old record is removed and the new one is
\* appended.
update_expense_moved(m, f, expense_id, date, category, description, amount, io) ==
    LET hits == {i \in 1..Len(m.expenses) : m.expenses[i].id = expense_id}
    IN  IF hits = {} THEN Outcome(m, NoWrite(f), FALSE, 0)
        ELSE LET i == CHOOSE j \in hits : \A k \in hits : j <= k
                 m1 == [ expenses |->
                           Append(SubSeq(m.expenses, 1, i - 1)
                                    \o SubSeq(m.expenses, i + 1, Len(m.expenses)),
                                  Expense(expense_id, date, category, description,
                                          amount)),
                         categories |-> m.categories \cup {category},
                         next_id |-> m.next_id ]
             IN  Outcome(m1, save_all(f, m1.expenses, io), TRUE, 1)

update_expense(m, f, expense_id, date, category, description, amount, io) ==
    LET hits == {i \in 1..Len(m.expenses) : m.expenses[i].id = expense_id}
    IN  IF hits = {} THEN Outcome(m, NoWrite(f), FALSE, 0)
        ELSE LET i == CHOOSE j \in hits : \A k \in hits : j <= k
                 m1 == [ expenses |->
                           [m.expenses EXCEPT ![i] =
                              Expense(expense_id, date, category, description, amount)],
                         categories |-> m.categories \cup {category},
                         next_id |-> m.next_id ]
             IN  Outcome(m1, save_all(f, m1.expenses, io), TRUE, 1)

RECURSIVE Without(_, _)
Without(expenses, expense_id) ==
    IF expenses = <<>> THEN <<>>
    ELSE IF Head(expenses).id = expense_id THEN Without(Tail(expenses), expense_id)
    ELSE <<Head(expenses)>> \o Without(Tail(expenses), expense_id)

\* A slip of delete_expense: "e.id < expense_id" for "e.id != expense_id".
delete_expense_below(m, f, expense_id, io) ==
    LET m1 == [m EXCEPT !.expenses = SelectSeq(m.expenses, LAMBDA e : e.id < expense_id)]
    IN  IF Len(m1.expenses) < Len(m.expenses)
        THEN Outcome(m1, save_all(f, m1.expenses, io), TRUE, 1)
        ELSE Outcome(m1, NoWrite(f), FALSE, 0)

\* More slips of delete_expense: the categories are recomputed from the
\* records left; "after <= before" for "after < before"; the filtered list is
\* saved and never assigned to self.expenses.
delete_expense_pruned(m, f, expense_id, io) ==
    LET kept == SelectSeq(m.expenses, LAMBDA e : e.id # expense_id)
        m1 == [m EXCEPT !.expenses = kept, !.categories = Categories(kept)]
    IN  IF Len(kept) < Len(m.expenses)
        THEN Outcome(m1, save_all(f, kept, io), TRUE, 1)
        ELSE Outcome(m, NoWrite(f), FALSE, 0)

delete_expense_always(m, f, expense_id, io) ==
    LET m1 == [m EXCEPT !.expenses = SelectSeq(m.expenses, LAMBDA e : e.id # expense_id)]
    IN  IF Len(m1.expenses) <= Len(m.expenses)
        THEN Outcome(m1, save_all(f, m1.expenses, io), TRUE, 1)
        ELSE Outcome(m1, NoWrite(f), FALSE, 0)

delete_expense_file_only(m, f, expense_id, io) ==
    LET kept == SelectSeq(m.expenses, LAMBDA e : e.id # expense_id)
    IN  IF Len(kept) < Len(m.expenses)
        THEN Outcome(m, save_all(f, kept, io), TRUE, 1)
        ELSE Outcome(m, NoWrite(f), FALSE, 0)

delete_expense(m, f, expense_id, io) ==
    LET m1 == [m EXCEPT !.expenses = Without(m.expenses, expense_id)]
    IN  IF Len(m1.expenses) < Len(m.expenses)
        THEN Outcome(m1, save_all(f, m1.expenses, io), TRUE, 1)
        ELSE Outcome(m1, NoWrite(f), FALSE, 0)

\* A slip of filter_by_month: the year is not compared.
filter_by_month_any_year(m, year, month) ==
    SelectSeq(m.expenses, LAMBDA e : e.date[2] = month)

\* [e for e in self.expenses if e.date.year == year and e.date.month == month]
filter_by_month(m, year, month) ==
    SelectSeq(m.expenses, LAMBDA e : e.date[1] = year /\ e.date[2] = month)

add_category(m, category) == [m EXCEPT !.categories = @ \cup {category}]

(* ------------------------------ Analyzer ------------------------------- *)

\* sum(e.amount for e in expenses)
RECURSIVE SumAmounts(_)
SumAmounts(expenses) ==
    IF expenses = <<>> THEN 0
    ELSE Head(expenses).amount + SumAmounts(Tail(expenses))

\* A defaultdict(float) is a sequence of <<key, value>> in the order the keys
\* came in.  d[key] += amount:
Accumulate(d, key, amount) ==
    IF \E i \in 1..Len(d) : d[i][1] = key
    THEN [i \in 1..Len(d) |-> IF d[i][1] = key THEN <<key, d[i][2] + amount>>
                                ELSE d[i]]
    ELSE Append(d, <<key, amount>>)

\* A slip of category_breakdown: "=" for "+=".
RECURSIVE category_breakdown_overwrite(_)
category_breakdown_overwrite(expenses) ==
    IF expenses = <<>> THEN <<>>
    ELSE LET e == expenses[Len(expenses)]
             d == category_breakdown_overwrite(SubSeq(expenses, 1, Len(expenses) - 1))
         IN  IF \E i \in 1..Len(d) : d[i][1] = e.category
             THEN [i \in 1..Len(d) |-> IF d[i][1] = e.category
                                        THEN <<e.category, e.amount>> ELSE d[i]]
             ELSE Append(d, <<e.category, e.amount>>)

\* for e in expenses: breakdown[e.category] += e.amount
RECURSIVE category_breakdown(_)
category_breakdown(expenses) ==
    IF expenses = <<>> THEN <<>>
    ELSE LET e == expenses[Len(expenses)]
         IN  Accumulate(category_breakdown(SubSeq(expenses, 1, Len(expenses) - 1)),
                        e.category, e.amount)

\* max(by_category.items(), key=lambda x: x[1]): the first of the largest.
MaxItem(d) ==
    d[CHOOSE i \in 1..Len(d) :
          /\ \A k \in 1..Len(d) : d[k][2] <= d[i][2]
          /\ \A k \in 1..(i - 1) : d[k][2] < d[i][2]]

\* total / days, kept as the fraction.
Quotient(n, d) == [num |-> n, den |-> d]

Dates(expenses) == {expenses[i].date : i \in 1..Len(expenses)}

\* A slip of monthly_summary: len(expenses) for len(set(e.date ...)).
monthly_summary_per_record(expenses) ==
    LET total == SumAmounts(expenses)
        by_category == category_breakdown(expenses)
        days == IF Len(expenses) = 0 THEN 1 ELSE Len(expenses)
        top == IF by_category # <<>> THEN MaxItem(by_category) ELSE <<<<>>, 0>>
    IN  [ total |-> total,
          avg_per_day |-> Quotient(total, days),
          top_category_amount |-> top[2],
          top_category |-> IF top[1] = <<>> THEN <<"N/A">> ELSE top[1] ]

\* Analyzer.monthly_summary; "top_category or 'N/A'" gives N/A for None and
\* for the empty string.
monthly_summary(expenses) ==
    LET total == SumAmounts(expenses)
        by_category == category_breakdown(expenses)
        days == IF Cardinality(Dates(expenses)) = 0 THEN 1
                ELSE Cardinality(Dates(expenses))
        top == IF by_category # <<>> THEN MaxItem(by_category) ELSE <<<<>>, 0>>
    IN  [ total |-> total,
          avg_per_day |-> Quotient(total, days),
          top_category_amount |-> top[2],
          top_category |-> IF top[1] = <<>> THEN <<"N/A">> ELSE top[1] ]

(* ------------------------------ inputs --------------------------------- *)

D1 == <<2024, 1, 5>>
D2 == <<2024, 2, 29>>

\* What the form hands to add_expense and update_expense: a date, a stripped
\* non-empty category and description, a positive amount (12.50, 1.004, 0.125).
\* No amount is a decimal tie that binary floating point cannot hold exactly.
AddInputs ==
    { <<D1, <<"Food">>, <<"lunch">>, 12500>>,
      <<D2, <<"Rent">>, <<"flat">>, 1004>> }

UpdateInputs ==
    { <<D1, <<"Fun">>, <<"film">>, 125>> }

\* Months asked of filter_by_month: the months of D1 and D2, and the month of
\* D1 a year earlier.
MonthInputs == { <<2024, 1>>, <<2024, 2>>, <<2023, 1>> }

\* A category typed into the add-category dialog.
CategoryInputs == { <<"Gift">> }

\* Registered users.
Usernames == { <<"ann">>, <<"bob">> }

Candidate(d, c, ds, a) ==
    [date |-> d, category |-> c, description |-> ds, amount |-> a]

cGood == Candidate(IsoCell(20240105), StrCell(<<" ", "Food">>),
                   StrCell(<<"lunch">>), FloatCell(12500))
cGood2 == Candidate(IsoCell(20240229), StrCell(<<"Rent">>),
                    StrCell(<<"flat", " ">>), Dec2Cell(250))
cBadDate == [cGood EXCEPT !.date = IsoCell(20241340)]
cNoDate == [cGood EXCEPT !.date = NanCell]
cEmptyCategory == [cGood EXCEPT !.category = StrCell(<<>>)]
cBlankDescription == [cGood EXCEPT !.description = StrCell(<<" ">>)]
cZero == [cGood EXCEPT !.amount = FloatCell(0)]
cNegative == [cGood EXCEPT !.amount = FloatCell(-5000)]
cBadAmount == [cGood EXCEPT !.amount = StrCell(<<"abc">>)]

cNanAmount == [cGood EXCEPT !.amount = NanCell]
cNoCategory == [cGood EXCEPT !.category = NanCell]

Candidates ==
    { cGood, cGood2, cBadDate, cNoDate, cEmptyCategory, cBlankDescription,
      cZero, cNegative, cBadAmount }

RECURSIVE ListsUpTo(_, _)
ListsUpTo(S, k) ==
    IF k = 0 THEN {<<>>}
    ELSE LET shorter == ListsUpTo(S, k - 1)
         IN  shorter \cup {Append(l, x) : l \in {y \in shorter : Len(y) = k - 1}, x \in S}

\* Candidate lists of the ledger's life: all short lists of an importable
\* row and a row whose date does not parse.
BulkInputs == ListsUpTo({cGood2, cBadDate}, MaxBulk)

\* Candidate lists of an import: all lists of up to MaxRows candidates.
ImportInputs == ListsUpTo(Candidates, MaxRows)

\* Row lists given to validate_expenses: those candidates and two with the
\* NaN parse_csv_file leaves for a missing amount or category.
ValidateInputs == ListsUpTo(Candidates \cup {cNanAmount, cNoCategory}, MaxRows)

\* Row lists of an import that is validated and then ingested: good rows and
\* rows of each kind the two loops take apart.
IngestInputs ==
    ListsUpTo({cGood, cGood2, cBadDate, cBadAmount, cNanAmount, cNoCategory},
              MaxBulk)

Row(i, d, c, ds, a) == <<IntCell(i), IsoCell(d), StrCell(c), StrCell(ds), a>>

\* Backing files a manager may be constructed over: the file FileStorage
\* creates, a file earlier sessions wrote, and a file edited by hand, with an
\* amount without decimals and two rows load_all skips.
InitialFiles ==
    { <<headers>>,
      <<headers, Row(1, 20240105, <<"Food">>, <<"lunch">>, Dec2Cell(1250)),
                 Row(2, 20240229, <<"Rent">>, <<"flat">>, Dec2Cell(250))>>,
      <<headers, Row(1, 20240105, <<"Food">>, <<"lunch">>, IntCell(12)),
                 Row(3, 20241340, <<"Food">>, <<"lunch">>, Dec2Cell(1250)),
                 <<IntCell(2), IsoCell(20240105), StrCell(<<"Food">>)>>>> }

\* Rows found below the header of a backing file: two that from_row takes
\* (one with an amount without decimals), one each whose id, date and amount
\* does not parse, a row of three cells, a blank line, a row of six cells,
\* and a row with a description of more than 131072 characters.
StoredRows ==
    { Row(1, 20240105, <<"Food">>, <<"lunch">>, Dec2Cell(1250)),
      Row(2, 20240229, <<" ", "Rent">>, <<>>, IntCell(12)),
      <<StrCell(<<"x">>), IsoCell(20240105), StrCell(<<"Food">>),
        StrCell(<<"lunch">>), Dec2Cell(1250)>>,
      Row(3, 20241340, <<"Food">>, <<"lunch">>, Dec2Cell(1250)),
      Row(4, 20240105, <<"Food">>, <<"lunch">>, StrCell(<<"abc">>)),
      <<IntCell(5), IsoCell(20240105), StrCell(<<"Food">>)>>,
      <<>>,
      <<IntCell(6), IsoCell(20240105), StrCell(<<"Food">>), StrCell(<<"lunch">>),
        Dec2Cell(1250), StrCell(<<>>)>>,
      Row(7, 20240105, <<"Food">>, <<TooLong>>, Dec2Cell(1250)) }

\* Files load_all is run on: none, and the header followed by up to MaxStored
\* of these rows.
StoreFiles ==
    {<<>>} \cup {<<headers>> \o rows : rows \in ListsUpTo(StoredRows, MaxStored)}

\* Records given to save_all: amounts 12.50 and -0.50 of two decimals, 1.004
\* and 0.125 of three; texts with white space, without characters and of
\* more than 131072 characters.
StoredRecords ==
    { Expense(1, D1, <<"Food">>, <<"lunch">>, 12500),
      Expense(2, D2, <<" ", "Rent">>, <<>>, -500),
      Expense(3, D1, <<"Food">>, <<"lunch">>, 1004),
      Expense(3, D2, <<"Fun">>, <<"film", " ">>, 125),
      Expense(4, D1, <<"Food">>, <<TooLong>>, 12500) }

RecordLists == ListsUpTo(StoredRecords, MaxStored)

\* Headers of tables given to parse_csv_file, six columns each: the
\* canonical names; Cost and Item; cost and item; amount and description
\* beside Cost and Item; Cost and Item beside cost and item; no column for
\* amount and description.
HeaderCanonical == <<"date", "category", "description", "amount", "note", "tag">>
HeaderUpper == <<"date", "Category", "Item", "Cost", "note", "tag">>
HeaderLower == <<"date", "category", "item", "cost", "note", "tag">>

TableHeaders ==
    { HeaderCanonical, HeaderUpper, HeaderLower,
      <<"date", "category", "description", "amount", "Cost", "Item">>,
      <<"date", "category", "Item", "Cost", "cost", "item">>,
      <<"date", "category", "place", "paid", "note", "tag">> }

\* Lines of such tables, as read_csv hands them on: numbers, texts and NaN
\* for an empty cell; the third has a text in the fourth column.
TableLines ==
    { << IsoCell(20240105), StrCell(<<" ", "Food">>), StrCell(<<"lunch">>),
         FloatCell(12500), FloatCell(7000), StrCell(<<"snack">>) >>,
      << IsoCell(20240229), StrCell(<<"Rent">>), StrCell(<<"flat", " ">>),
         NanCell, IntCell(3), NanCell >>,
      << IsoCell(20240105), StrCell(<<"Food">>), StrCell(<<"lunch">>),
         StrCell(<<"abc">>), FloatCell(1000), StrCell(<<"tea">>) >> }

Table(readable, columns, rows) ==
    [readable |-> readable, columns |-> columns, rows |-> rows]

\* Files chosen in the import window: one that read_csv cannot read, and
\* every header over every list of up to MaxLines lines.
TableInputs ==
    {Table(FALSE, <<>>, <<>>)}
        \cup {Table(TRUE, h, l) : h \in TableHeaders, l \in ListsUpTo(TableLines, MaxLines)}

\* Files picked in the import window: the unreadable one, and one line under
\* the header with amount and description or under the one with Cost and Item.
PreviewInputs ==
    {t \in TableInputs :
        \/ ~t.readable
        \/ t.columns \in {HeaderCanonical, HeaderUpper} /\ Len(t.rows) = 1}

(* ------------------------------ state machine -------------------------- *)

\* last: the call that led to this state - its name; its arguments (id: the
\* expense_id, in: date, category, description and amount, data: the
\* candidate list); what it returned (rec: the record of add_expense, as a
\* sequence of one; counts: the pair of bulk_add_expenses; found: the boolean
\* of update_expense and delete_expense); whether it raised; how often it
\* wrote the file; the ids of the records it created; out: the list a query
\* returned (filter_by_month, the valid rows of validate_expenses); errors:
\* the messages of validate_expenses; stats: the dict of monthly_summary;
\* io: how the write of the call went, where the call is given one.
\* hist: what the live manager loaded (the ids, and whether they were pairwise
\* distinct), the ids it issued, the ids deleted from the section so far,
\* gone: the ids for which delete_expense returned True on this manager, and
\* counts over the manager's life: calls of add_expense, calls of
\* delete_expense that returned True, records created by bulk_add_expenses.
Call(name, id, in, data, o, new) ==
    [op |-> name, id |-> id, in |-> in, data |-> data,
     rec |-> IF name = "add" THEN <<o.ret>> ELSE <<>>,
     counts |-> IF name = "bulk_add" THEN o.ret ELSE <<>>,
     found |-> IF name \in {"update", "delete"} THEN o.ret ELSE FALSE,
     raised |-> o.raised, writes |-> o.writes, new |-> new,
     out |-> <<>>, errors |-> <<>>, stats |-> monthly_summary(<<>>),
     io |-> "ok"]

NoCall ==
    [op |-> "init", id |-> 0, in |-> <<>>, data |-> <<>>, rec |-> <<>>,
     counts |-> <<>>, found |-> FALSE, raised |-> FALSE, writes |-> 0,
     new |-> {}, out |-> <<>>, errors |-> <<>>, stats |-> monthly_summary(<<>>),
     io |-> "ok"]

Fresh(deleted, m) ==
    [loaded |-> Ids(m.expenses),
     distinct |-> Cardinality(Ids(m.expenses)) = Len(m.expenses),
     issued |-> {}, deleted |-> deleted, gone |-> {}, adds |-> 0, dels |-> 0,
     bulked |-> 0]

\* disk, sess: the files of all sections of all users by path, and the
\* session - who is logged in, the section shown, the path of the live
\* manager's storage, and the steps taken.  Only SpecSections moves them; the
\* other specifications follow the one file.
\* peer: a second SectionManager alive over the same storage (none, or one);
\* selected_expense_id: None, or the id of the row picked in the table, and
\* selected_in: the section that was shown when it was picked;
\* import_data, valid_data: the lists of the bulk-import window, and stale:
\* whether a file was picked in the window since valid_data was last assigned.
NoSession == [username |-> <<>>, section |-> "personal", filepath |-> <<>>,
              steps |-> 0, peer |-> <<>>, selected_expense_id |-> <<>>,
              selected_in |-> "personal",
              import_data |-> <<>>, valid_data |-> <<>>, stale |-> FALSE]

Init ==
    /\ file \in InitialFiles
    /\ mgr = SectionManager(file)
    /\ last = NoCall
    /\ hist = Fresh({}, mgr)
    /\ disk = <<>>
    /\ sess = NoSession

\* The ids of the records a call appended.
NewIds(m, m1) ==
    {m1.expenses[k].id : k \in (Len(m.expenses) + 1)..Len(m1.expenses)}

Add(in, io) ==
    /\ mgr.next_id <= MaxId
    /\ LET o == add_expense(mgr, file, in[1], in[2], in[3], in[4], io)
       IN  /\ mgr' = o.m
           /\ file' = o.f
           /\ last' = [Call("add", 0, in, <<>>, o, NewIds(mgr, o.m))
                          EXCEPT !.io = io]
           /\ hist' = [hist EXCEPT !.issued = @ \cup NewIds(mgr, o.m),
                                   !.adds = @ + 1]
           /\ UNCHANGED <<disk, sess>>

BulkAdd(data, io) ==
    /\ LET o == bulk_add_expenses(mgr, file, data, io)
       IN  /\ o.m.next_id <= MaxId + 1
           /\ mgr' = o.m
           /\ file' = o.f
           /\ last' = Call("bulk_add", 0, <<>>, data, o, NewIds(mgr, o.m))
           /\ hist' = [hist EXCEPT !.issued = @ \cup NewIds(mgr, o.m),
                                   !.bulked = @ + Len(o.m.expenses) - Len(mgr.expenses)]
           /\ UNCHANGED <<disk, sess>>

Update(id, in, io) ==
    LET o == update_expense(mgr, file, id, in[1], in[2], in[3], in[4], io)
    IN  /\ mgr' = o.m
        /\ file' = o.f
        /\ last' = [Call("update", id, in, <<>>, o, {}) EXCEPT !.io = io]
        /\ hist' = hist
        /\ UNCHANGED <<disk, sess>>

Delete(id, io) ==
    LET o == delete_expense(mgr, file, id, io)
    IN  /\ mgr' = o.m
        /\ file' = o.f
        /\ last' = [Call("delete", id, <<>>, <<>>, o, {}) EXCEPT !.io = io]
        /\ hist' = [hist EXCEPT
                      !.deleted = @ \cup (Ids(mgr.expenses) \ Ids(o.m.expenses)),
                      !.gone = IF o.ret THEN @ \cup {id} ELSE @,
                      !.dels = IF o.ret THEN @ + 1 ELSE @]
        /\ UNCHANGED <<disk, sess>>

\* _switch_section: a new SectionManager over the same backing file
\* replaces the live one - unless load_all raises in its constructor, and the
\* live one stays.
SwitchSection ==
    /\ mgr' = IF load_raises(file) THEN mgr ELSE SectionManager(file)
    /\ file' = file
    /\ last' = [NoCall EXCEPT !.raised = load_raises(file)]
    /\ hist' = IF load_raises(file) THEN hist ELSE Fresh(hist.deleted, mgr')
    /\ UNCHANGED <<disk, sess>>

Next ==
    \/ \E in \in AddInputs : Add(in, "ok")
    \/ \E data \in BulkInputs : BulkAdd(data, "ok")
    \/ \E id \in 1..MaxId, in \in UpdateInputs : Update(id, in, "ok")
    \/ \E id \in 1..MaxId : Delete(id, "ok")
    \/ SwitchSection

Spec == Init /\ [][Next]_vars

\* Imports as import_data_final runs them: a SectionManager is constructed,
\* bulk_add_expenses is called on it once, and _switch_section constructs the
\* next manager over what the import left in the file.
NextImport ==
    \/ \E data \in ImportInputs : last.op = "init" /\ BulkAdd(data, "ok")
    \/ SwitchSection

SpecImport == Init /\ [][NextImport]_vars

AddCategory(category) ==
    /\ mgr' = add_category(mgr, category)
    /\ file' = file
    /\ last' = [NoCall EXCEPT !.op = "add_category", !.in = <<category>>]
    /\ hist' = hist
    /\ UNCHANGED <<disk, sess>>

FilterByMonth(year, month) ==
    /\ mgr' = mgr
    /\ file' = file
    /\ last' = [NoCall EXCEPT !.op = "filter", !.in = <<year, month>>,
                              !.out = filter_by_month(mgr, year, month)]
    /\ hist' = hist
    /\ UNCHANGED <<disk, sess>>

\* The life of one SectionManager: every method of it, and no construction
\* of another manager.
NextManager ==
    \/ \E in \in AddInputs : Add(in, "ok")
    \/ \E data \in BulkInputs : BulkAdd(data, "ok")
    \/ \E id \in 1..MaxId, in \in UpdateInputs : Update(id, in, "ok")
    \/ \E id \in 1..MaxId : Delete(id, "ok")
    \/ \E category \in CategoryInputs : AddCategory(category)
    \/ \E q \in MonthInputs : FilterByMonth(q[1], q[2])

SpecManager == Init /\ [][NextManager]_vars

(* ------------------------------ sections ------------------------------- *)

Paths == {get_storage(u, s) : u \in Usernames, s \in Sections}

Session(username, section, steps) ==
    [NoSession EXCEPT !.username = username, !.section = section,
                      !.filepath = get_storage(username, section),
                      !.steps = steps]

\* ExpenseApp.__init__ for a user: MultiFileStorage creates the user's missing
\* files, _switch_section("personal") constructs the first manager.
Login(username) ==
    /\ sess.steps < MaxSteps
    /\ sess' = Session(username, "personal", sess.steps + 1)
    /\ disk' = ensure_file(init_all_files(disk, username), sess'.filepath)
    /\ mgr' = SectionManager(disk'[sess'.filepath])
    /\ last' = NoCall
    /\ hist' = Fresh({}, mgr')
    /\ file' = file

\* Disks a session may start on: no file yet, or every section of every user
\* holding two records from earlier sessions.
InitSections ==
    /\ \E u \in Usernames, f \in {<<>>, <<headers,
              Row(1, 20240105, <<"Food">>, <<"lunch">>, Dec2Cell(1250)),
              Row(2, 20240229, <<"Rent">>, <<"flat">>, Dec2Cell(250))>>} :
          /\ sess = Session(u, "personal", 0)
          /\ disk = ensure_file(init_all_files([p \in Paths |-> f], u),
                                sess.filepath)
    /\ mgr = SectionManager(disk[sess.filepath])
    /\ last = NoCall
    /\ hist = Fresh({}, mgr)
    /\ file = <<>>

\* _on_section_switch: _switch_section(section) of the logged-in user.
SwitchTo(section) ==
    /\ sess.steps < MaxSteps
    /\ sess' = [sess EXCEPT !.section = section,
                            !.filepath = get_storage(sess.username, section),
                            !.steps = @ + 1]
    /\ disk' = ensure_file(disk, sess'.filepath)
    /\ mgr' = SectionManager(disk'[sess'.filepath])
    /\ last' = NoCall
    /\ hist' = Fresh({}, mgr')
    /\ file' = file

\* The methods of the live manager, run on the file of its storage.
SectionAdd(in) ==
    /\ sess.steps < MaxSteps
    /\ LET o == add_expense(mgr, disk[sess.filepath], in[1], in[2], in[3],
                            in[4], "ok")
       IN  /\ mgr' = o.m
           /\ disk' = [disk EXCEPT ![sess.filepath] = o.f]
           /\ last' = Call("add", 0, in, <<>>, o, NewIds(mgr, o.m))
    /\ sess' = [sess EXCEPT !.steps = @ + 1]
    /\ UNCHANGED <<file, hist>>

SectionBulkAdd(data) ==
    /\ sess.steps < MaxSteps
    /\ LET o == bulk_add_expenses(mgr, disk[sess.filepath], data, "ok")
       IN  /\ mgr' = o.m
           /\ disk' = [disk EXCEPT ![sess.filepath] = o.f]
           /\ last' = Call("bulk_add", 0, <<>>, data, o, NewIds(mgr, o.m))
    /\ sess' = [sess EXCEPT !.steps = @ + 1]
    /\ UNCHANGED <<file, hist>>

SectionUpdate(id, in) ==
    /\ sess.steps < MaxSteps
    /\ LET o == update_expense(mgr, disk[sess.filepath], id, in[1], in[2],
                               in[3], in[4], "ok")
       IN  /\ mgr' = o.m
           /\ disk' = [disk EXCEPT ![sess.filepath] = o.f]
           /\ last' = Call("update", id, in, <<>>, o, {})
    /\ sess' = [sess EXCEPT !.steps = @ + 1]
    /\ UNCHANGED <<file, hist>>

SectionDelete(id) ==
    /\ sess.steps < MaxSteps
    /\ LET o == delete_expense(mgr, disk[sess.filepath], id, "ok")
       IN  /\ mgr' = o.m
           /\ disk' = [disk EXCEPT ![sess.filepath] = o.f]
           /\ last' = Call("delete", id, <<>>, <<>>, o, {})
    /\ sess' = [sess EXCEPT !.steps = @ + 1]
    /\ UNCHANGED <<file, hist>>

NextSections ==
    \/ \E u \in Usernames : Login(u)
    \/ \E s \in Sections : SwitchTo(s)
    \/ \E in \in UpdateInputs : SectionAdd(in)
    \/ SectionBulkAdd(<<cGood2, cBadDate>>)
    \/ \E id \in 1..MaxId, in \in UpdateInputs : SectionUpdate(id, in)
    \/ \E id \in 1..MaxId : SectionDelete(id)

SpecSections == InitSections /\ [][NextSections]_vars

(* ------------------------------ store ---------------------------------- *)

\* A file is on disk (or none is) and no manager has been constructed over
\* it yet.
InitStore ==
    /\ file \in StoreFiles
    /\ mgr = SectionManager(<<>>)
    /\ last = [NoCall EXCEPT !.op = "start"]
    /\ hist = Fresh({}, mgr)
    /\ disk = <<>>
    /\ sess = NoSession

\* FileStorage.save_all(expenses).
SaveAll(expenses) ==
    /\ file' = save_all(file, expenses, "ok").f
    /\ last' = [NoCall EXCEPT !.op = "save", !.out = expenses, !.writes = 1]
    /\ UNCHANGED <<mgr, hist, disk, sess>>

\* FileStorage.load_all() and FileStorage.save_all(expenses), the first as
\* the construction of a manager runs it.
NextStore ==
    \/ SwitchSection
    \/ \E expenses \in RecordLists : SaveAll(expenses)

SpecStore == InitStore /\ [][NextStore]_vars

(* ------------------------------ validation ----------------------------- *)

\* validate_data of the import window: validate_expenses on the rows read.
Validate(rows) ==
    /\ LET v == validate_expenses(rows)
       IN  last' = [NoCall EXCEPT !.op = "validate", !.data = rows,
                                 !.out = v.valid, !.errors = v.errors]
    /\ UNCHANGED <<file, mgr, hist, disk, sess>>

NextValidate == \E rows \in ValidateInputs : Validate(rows)

SpecValidate == Init /\ [][NextValidate]_vars

\* The two phases of an import: validate_expenses on the rows read, then
\* bulk_add_expenses on the valid rows it returned.
Ingest == last.op = "validate" /\ BulkAdd(last.out, "ok")

NextIngest ==
    \/ \E rows \in IngestInputs : Validate(rows)
    \/ Ingest

SpecIngest == Init /\ [][NextIngest]_vars

(* ------------------------------ analysis ------------------------------- *)

\* _refresh_summary: category_breakdown and monthly_summary of the records
\* of the month shown.  last.data holds the records, last.out the breakdown.
Summary(year, month) ==
    /\ LET expenses == filter_by_month(mgr, year, month)
       IN  last' = [NoCall EXCEPT !.op = "summary", !.in = <<year, month>>,
                                 !.data = expenses,
                                 !.out = category_breakdown(expenses),
                                 !.stats = monthly_summary(expenses)]
    /\ UNCHANGED <<file, mgr, hist, disk, sess>>

NextAnalyzer ==
    \/ \E in \in AddInputs : Add(in, "ok")
    \/ \E id \in 1..MaxId, in \in UpdateInputs : Update(id, in, "ok")
    \/ \E id \in 1..MaxId : Delete(id, "ok")
    \/ \E q \in MonthInputs : Summary(q[1], q[2])

SpecAnalyzer == Init /\ [][NextAnalyzer]_vars

(* ------------------------------ failing writes ------------------------- *)

\* The single-record operations, each with every outcome of its save_all.
NextFaults ==
    \/ \E in \in AddInputs, io \in IoOutcomes : Add(in, io)
    \/ \E id \in 1..MaxId, in \in UpdateInputs, io \in IoOutcomes : Update(id, in, io)
    \/ \E id \in 1..MaxId, io \in IoOutcomes : Delete(id, io)

SpecFaults == Init /\ [][NextFaults]_vars

(* ------------------------------ the table selection -------------------- *)

\* _on_select_row with a row of the table selected.
OnSelectRow(id) ==
    /\ sess.steps < MaxSteps
    /\ id \in Ids(mgr.expenses)
    /\ sess' = [sess EXCEPT !.selected_expense_id = <<id>>,
                            !.selected_in = sess.section,
                            !.steps = @ + 1]
    /\ last' = [NoCall EXCEPT !.op = "select", !.id = id]
    /\ UNCHANGED <<file, mgr, hist, disk>>

\* _on_update with a valid form: update_expense(self.selected_expense_id, ...)
\* on the live manager, _clear_form when it returns True.
OnUpdate(in) ==
    /\ sess.steps < MaxSteps
    /\ sess.selected_expense_id # <<>>
    /\ LET id == sess.selected_expense_id[1]
           o == update_expense(mgr, disk[sess.filepath], id, in[1], in[2],
                               in[3], in[4], "ok")
       IN  /\ mgr' = o.m
           /\ disk' = [disk EXCEPT ![sess.filepath] = o.f]
           /\ last' = [Call("update", id, in, <<>>, o, {}) EXCEPT !.op = "on_update"]
           /\ sess' = [sess EXCEPT !.steps = @ + 1,
                         !.selected_expense_id = IF o.ret THEN <<>> ELSE @]
    /\ UNCHANGED <<file, hist>>

\* _on_delete, the question answered with yes.
OnDelete ==
    /\ sess.steps < MaxSteps
    /\ sess.selected_expense_id # <<>>
    /\ LET id == sess.selected_expense_id[1]
           o == delete_expense(mgr, disk[sess.filepath], id, "ok")
       IN  /\ mgr' = o.m
           /\ disk' = [disk EXCEPT ![sess.filepath] = o.f]
           /\ last' = [Call("delete", id, <<>>, <<>>, o, {}) EXCEPT !.op = "on_delete"]
           /\ sess' = [sess EXCEPT !.steps = @ + 1,
                         !.selected_expense_id = IF o.ret THEN <<>> ELSE @]
    /\ UNCHANGED <<file, hist>>

\* _on_add with a valid form: add_expense, then _clear_form.
OnAdd(in) ==
    /\ sess.steps < MaxSteps
    /\ LET o == add_expense(mgr, disk[sess.filepath], in[1], in[2], in[3],
                            in[4], "ok")
       IN  /\ mgr' = o.m
           /\ disk' = [disk EXCEPT ![sess.filepath] = o.f]
           /\ last' = [Call("add", 0, in, <<>>, o, NewIds(mgr, o.m))
                          EXCEPT !.op = "on_add"]
    /\ sess' = [sess EXCEPT !.steps = @ + 1, !.selected_expense_id = <<>>]
    /\ UNCHANGED <<file, hist>>

\* import_data_final for a section: a manager constructed over the section's
\* storage takes the rows, then _switch_section(section).
ImportTo(section, data) ==
    /\ sess.steps < MaxSteps
    /\ data # <<>>
    /\ LET path == get_storage(sess.username, section)
           f == ensure_file(disk, path)[path]
           o == bulk_add_expenses(SectionManager(f), f, data, "ok")
       IN  /\ disk' = [ensure_file(disk, path) EXCEPT ![path] = o.f]
           /\ mgr' = SectionManager(o.f)
           /\ last' = [Call("bulk_add", 0, <<>>, data, o, {}) EXCEPT !.op = "import"]
           /\ sess' = [sess EXCEPT !.section = section, !.filepath = path,
                                   !.steps = @ + 1]
    /\ UNCHANGED <<file, hist>>

NextApp ==
    \/ \E s \in Sections : SwitchTo(s)
    \/ \E id \in 1..MaxId : OnSelectRow(id)
    \/ \E in \in UpdateInputs : OnUpdate(in)
    \/ OnDelete
    \/ \E in \in UpdateInputs : OnAdd(in)
    \/ \E s \in Sections : ImportTo(s, <<cGood2>>)

SpecApp == InitSections /\ [][NextApp]_vars

(* ------------------------------ the import window ---------------------- *)

\* The preview loop of load_preview slices category and description, which
\* raises on a value that is no str.
PreviewRaises(rows) ==
    \E i \in 1..Len(rows) : ~IsStr(rows[i].category) \/ ~IsStr(rows[i].description)

\* browse_file with a file picked: load_preview assigns import_data when
\* parse_csv_file returns, and shows an error when anything in its try raises.
LoadPreview(t) ==
    /\ LET r == parse_csv_file(t)
       IN  /\ sess' = [sess EXCEPT !.import_data = IF r.raised THEN @ ELSE r.rows,
                                   !.stale = TRUE]
           /\ last' = [NoCall EXCEPT !.op = "load_preview",
                          !.in = <<t.readable, t.columns, t.rows>>,
                          !.raised = r.raised \/ PreviewRaises(r.rows)]
    /\ UNCHANGED <<file, mgr, hist, disk>>

\* validate_data: nothing without import_data; else valid_data and errors are
\* assigned from validate_expenses(import_data).
ValidateData ==
    /\ sess.import_data # <<>>
    /\ LET v == validate_expenses(sess.import_data)
       IN  /\ sess' = [sess EXCEPT !.valid_data = v.valid, !.stale = FALSE]
           /\ last' = [NoCall EXCEPT !.op = "validate_data",
                          !.data = sess.import_data,
                          !.out = v.valid, !.errors = v.errors]
    /\ UNCHANGED <<file, mgr, hist, disk>>

\* import_data_final: nothing without valid_data; else a manager constructed
\* over the storage takes valid_data, _switch_section constructs the live
\* manager anew and the window is destroyed - the next window starts with
\* empty lists.
ImportAll ==
    /\ sess.valid_data # <<>>
    /\ LET o == bulk_add_expenses(SectionManager(file), file, sess.valid_data, "ok")
       IN  /\ o.m.next_id <= MaxId + 1
           /\ file' = o.f
           /\ mgr' = SectionManager(o.f)
           /\ last' = [Call("bulk_add", 0, <<>>, sess.valid_data, o,
                             NewIds(SectionManager(file), o.m))
                          EXCEPT !.op = "import_all"]
           /\ hist' = Fresh(hist.deleted, mgr')
    /\ sess' = [sess EXCEPT !.import_data = <<>>, !.valid_data = <<>>,
                            !.stale = FALSE]
    /\ disk' = disk

NextWindow ==
    \/ \E t \in PreviewInputs : LoadPreview(t)
    \/ ValidateData
    \/ ImportAll

SpecWindow == Init /\ [][NextWindow]_vars

(* ------------------------------ two managers --------------------------- *)

\* A second SectionManager is constructed over the storage of the live one
\* (import_data_final does so; so does a second run of the program).
OpenPeer ==
    /\ sess.peer = <<>>
    /\ ~load_raises(file)
    /\ sess' = [sess EXCEPT !.peer = <<SectionManager(file)>>]
    /\ last' = [NoCall EXCEPT !.op = "peer_open"]
    /\ UNCHANGED <<file, mgr, hist, disk>>

\* add_expense on the second manager.
PeerAdd(in) ==
    /\ sess.peer # <<>>
    /\ sess.peer[1].next_id <= MaxId
    /\ LET o == add_expense(sess.peer[1], file, in[1], in[2], in[3], in[4], "ok")
       IN  /\ sess' = [sess EXCEPT !.peer = <<o.m>>]
           /\ file' = o.f
           /\ last' = [Call("add", 0, in, <<>>, o, NewIds(sess.peer[1], o.m))
                          EXCEPT !.op = "peer_add"]
    /\ UNCHANGED <<mgr, hist, disk>>

\* delete_expense on the second manager.
PeerDelete(id) ==
    /\ sess.peer # <<>>
    /\ LET o == delete_expense(sess.peer[1], file, id, "ok")
       IN  /\ sess' = [sess EXCEPT !.peer = <<o.m>>]
           /\ file' = o.f
           /\ last' = [Call("delete", id, <<>>, <<>>, o, {})
                          EXCEPT !.op = "peer_delete"]
    /\ UNCHANGED <<mgr, hist, disk>>

NextPeers ==
    \/ OpenPeer
    \/ \E in \in AddInputs : Add(in, "ok")
    \/ \E id \in 1..MaxId : Delete(id, "ok")
    \/ \E in \in AddInputs : PeerAdd(in)
    \/ \E id \in 1..MaxId : PeerDelete(id)

SpecPeers == Init /\ [][NextPeers]_vars

(* ------------------------------ parsing -------------------------------- *)

\* SectionManager.parse_csv_file(filepath); last.in holds the table as
\* <<readable, columns, rows>>.
Parse(t) ==
    /\ LET r == parse_csv_file(t)
       IN  last' = [NoCall EXCEPT !.op = "parse",
                                 !.in = <<t.readable, t.columns, t.rows>>,
                                 !.out = r.rows, !.raised = r.raised]
    /\ UNCHANGED <<file, mgr, hist, disk, sess>>

NextParse == \E t \in TableInputs : Parse(t)

SpecParse == Init /\ [][NextParse]_vars

(* ------------------------------ properties ----------------------------- *)

Distinct(expenses) ==
    \A i, j \in 1..Len(expenses) : i # j => expenses[i].id # expenses[j].id

Mutating == {"add", "bulk_add", "update", "delete"}

\* The call that led here says, by what it returned, that it changed the
\* collection.
Changed ==
    CASE last.op = "add" -> TRUE
      [] last.op = "bulk_add" -> last.counts[1] > 0
      [] last.op \in {"update", "delete"} -> last.found
      [] OTHER -> FALSE

\* C1: a manager constructed over a store whose ids are pairwise distinct
\* keeps the ids pairwise distinct, in its collection and among the records
\* of the backing file, whatever add, bulk add, update and delete it runs.
C1_DistinctIds ==
    hist.distinct => Distinct(mgr.expenses) /\ Distinct(load_all(file))

\* C1 witness: in a section a record was deleted from, such a manager holds
\* two records, the second created by add, and the file holds both.
C1_Witness ==
    /\ hist.distinct /\ last.op = "add" /\ hist.deleted # {}
    /\ Len(mgr.expenses) = 2 /\ Len(load_all(file)) = 2

\* C2: no record created by add or bulk add receives an id that a record
\* deleted earlier from the section had, also across the construction of a
\* new manager over the same store.
C2_NoIdReuse == last.new \cap hist.deleted = {}

\* C3: a new manager's next id is max(loaded ids) + 1 (1 over an empty store);
\* every id it issues is greater than every id it loaded or issued before;
\* update and delete leave the next id as it is.
C3_NextIdAtLoad ==
    last.op = "init" =>
        mgr.next_id = (IF hist.loaded = {} THEN 1 ELSE SetMax(hist.loaded) + 1)

C3_IssuedAbove ==
    \A i \in last'.new : \A j \in hist.loaded \cup hist.issued : i > j

C3_NextIdKept ==
    last'.op \in {"update", "delete"} => mgr'.next_id = mgr.next_id

C3_MonotonicIds ==
    /\ []C3_NextIdAtLoad
    /\ [][C3_IssuedAbove /\ C3_NextIdKept]_vars

\* C3 witness: a manager that loaded ids has deleted a record and then
\* created one with add.
C3_Witness ==
    /\ last.op = "add" /\ hist.loaded # {} /\ hist.dels >= 1
    /\ last.new \subseteq Ids(mgr.expenses)

\* C4: after every add, bulk add, update and delete that returned, the records
\* the file holds are, row for row and in order, the records of the
\* collection as to_row writes them; a call that changed the collection has
\* rewritten the whole file from it.
C4_FileHoldsCollection ==
    (last.op \in Mutating /\ ~last.raised) =>
        /\ ToRows(load_all(file)) = ToRows(mgr.expenses)
        /\ Changed => file = <<headers>> \o ToRows(mgr.expenses)

\* C4 witness: an update has replaced one of two records and the file holds
\* the two rows.
C4_Witness ==
    /\ last.op = "update" /\ last.found
    /\ Len(mgr.expenses) = 2 /\ Len(file) = 3

\* C5: on a manager that started from an empty section and ran only add,
\* update and delete, the collection has as many records as add was called
\* minus the calls of delete that removed a record.
C5_CountIsAddsMinusDeletes ==
    (hist.loaded = {} /\ hist.bulked = 0) =>
        Len(mgr.expenses) = hist.adds - hist.dels

\* C5 witness: two adds and a delete from an empty section.
C5_Witness ==
    /\ hist.loaded = {} /\ hist.bulked = 0
    /\ hist.adds = 2 /\ hist.dels = 1 /\ Len(mgr.expenses) = 1

\* C6: add returns a record made of its four arguments and the next id the
\* manager had, and the collection is the earlier collection with that
\* record appended.
C6_AddStep ==
    last'.op = "add" =>
        /\ ~last'.raised
        /\ last'.rec = <<Expense(mgr.next_id, last'.in[1], last'.in[2],
                                 last'.in[3], last'.in[4])>>
        /\ mgr'.expenses = mgr.expenses \o last'.rec

C6_AddAppends == [][C6_AddStep]_vars

\* C6 witness: add has returned on a manager that held a record before.
C6_Witness ==
    /\ last.op = "add" /\ ~last.raised /\ Len(mgr.expenses) = 2
    /\ <<mgr.expenses[2]>> = last.rec

\* The record bulk_add_expenses makes of a candidate it accepts.
Made(c, i) ==
    Expense(i, fromisoformat(c.date), Strip(TextOf(c.category)),
            Strip(TextOf(c.description)), FloatOf(c.amount))

\* The n records recs come from candidates of data taken in increasing
\* positions, and carry the ids first, first + 1, ...
InCandidateOrder(recs, data, first) ==
    \E pos \in [1..Len(recs) -> 1..Len(data)] :
        /\ \A k \in 1..Len(recs) : k > 1 => pos[k - 1] < pos[k]
        /\ \A k \in 1..Len(recs) : recs[k] = Made(data[pos[k]], first + k - 1)

\* C7: bulk add returns (success, skipped) with success + skipped = number of
\* candidates and never raises because of a row; the collection is the
\* earlier collection followed by success new records, which come from
\* candidates in candidate order and carry consecutive ids from the next id.
C7_BulkStep ==
    last'.op = "bulk_add" =>
        LET n == last'.counts[1]
            old == Len(mgr.expenses)
        IN  /\ ~last'.raised
            /\ n + last'.counts[2] = Len(last'.data)
            /\ Len(mgr'.expenses) = old + n
            /\ SubSeq(mgr'.expenses, 1, old) = mgr.expenses
            /\ InCandidateOrder(SubSeq(mgr'.expenses, old + 1, old + n),
                                last'.data, mgr.next_id)
            /\ mgr'.next_id = mgr.next_id + n

C7_BulkCounts == [][C7_BulkStep]_vars

\* C7 witness: of two candidates the first was skipped and the second was
\* added to a collection that held a record.
C7_Witness ==
    /\ last.op = "bulk_add" /\ last.counts = <<1, 1>>
    /\ RowRaises(last.data[1]) /\ Len(mgr.expenses) = 2

BlankField(c) ==
    \/ IsStr(c.category) /\ Strip(TextOf(c.category)) = <<>>
    \/ IsStr(c.description) /\ Strip(TextOf(c.description)) = <<>>

\* C8: bulk add skips every candidate whose category or description is empty
\* or white space only, and creates no record with an empty category or
\* description.
C8_BulkSkipsBlank ==
    last.op = "bulk_add" =>
        /\ last.counts[2] >=
               Cardinality({k \in 1..Len(last.data) : BlankField(last.data[k])})
        /\ \A k \in 1..Len(mgr.expenses) :
              mgr.expenses[k].id \in last.new =>
                  /\ mgr.expenses[k].category # <<>>
                  /\ mgr.expenses[k].description # <<>>

\* C9: bulk add creates no record whose amount is zero or negative.
C9_BulkAmountsPositive ==
    last.op = "bulk_add" =>
        \A k \in 1..Len(mgr.expenses) :
            mgr.expenses[k].id \in last.new => mgr.expenses[k].amount > 0

\* C10: a bulk add that added a record wrote the file once, with the whole
\* collection as it is after the last candidate; a bulk add that added none
\* did not write, and left collection, next id and file as they were.
C10_BulkStep ==
    last'.op = "bulk_add" =>
        IF last'.counts[1] > 0
        THEN /\ last'.writes = 1
             /\ file' = <<headers>> \o ToRows(mgr'.expenses)
        ELSE /\ last'.writes = 0
             /\ file' = file
             /\ mgr'.expenses = mgr.expenses
             /\ mgr'.next_id = mgr.next_id

C10_BulkWritesOnce == [][C10_BulkStep]_vars

\* C10 witness: a bulk add has added two records and written once.
C10_Witness ==
    /\ last.op = "bulk_add" /\ last.counts = <<2, 0>> /\ last.writes = 1
    /\ Len(file) = 3

\* C11: update returns True exactly when a record with the id is in the
\* collection; it then puts a record with that id and the four new fields at
\* the position of the old one and leaves every other record as it was;
\* otherwise it returns False and changes neither the collection nor the file.
C11_UpdateStep ==
    last'.op = "update" =>
        LET old == mgr.expenses
            new == mgr'.expenses
            exp == Expense(last'.id, last'.in[1], last'.in[2], last'.in[3],
                           last'.in[4])
        IN  /\ last'.found <=> last'.id \in Ids(old)
            /\ last'.found =>
                   \E i \in 1..Len(old) :
                       old[i].id = last'.id /\ new = [old EXCEPT ![i] = exp]
            /\ ~last'.found => new = old /\ file' = file

C11_UpdateInPlace == [][C11_UpdateStep]_vars

\* C11 witness: the first of two records has been updated and the second is
\* still behind it.
C11_Witness ==
    /\ last.op = "update" /\ last.found /\ Len(mgr.expenses) = 2
    /\ mgr.expenses[1].id = last.id /\ mgr.expenses[1].category = last.in[2]
    /\ mgr.expenses[2].category # last.in[2]

\* C12: delete returns True exactly when a record with the id was in the
\* collection; it then removes that record and keeps the others in their
\* order; otherwise it returns False and changes neither the collection nor
\* the file.
C12_DeleteStep ==
    last'.op = "delete" =>
        LET old == mgr.expenses
            new == mgr'.expenses
        IN  /\ last'.found <=> last'.id \in Ids(old)
            /\ last'.found =>
                   /\ Len(new) = Len(old) - 1
                   /\ new = SelectSeq(old, LAMBDA e : e.id # last'.id)
            /\ ~last'.found => new = old /\ file' = file

C13_GoneStep ==
    (last'.op \in {"update", "delete"} /\ last'.id \in hist.gone) => ~last'.found

C13_NoResurrection ==
    /\ [](hist.gone \cap Ids(mgr.expenses) = {})
    /\ [][C13_GoneStep]_vars

\* C13 witness: a manager has added a record, deleted it, added another and
\* then been asked to update the deleted id.
C13_Witness ==
    /\ last.op = "update" /\ last.id \in hist.gone /\ hist.adds = 2
    /\ Len(mgr.expenses) = 1

\* C14: filter_by_month(year, month) returns the records of the collection
\* whose date is in that year and month, all of them and no other, in the
\* order of the collection - none for a month without records - and changes
\* neither the manager nor the file.
C14_FilterResult ==
    last.op = "filter" =>
        LET hits == {i \in 1..Len(mgr.expenses) :
                        /\ mgr.expenses[i].date[1] = last.in[1]
                        /\ mgr.expenses[i].date[2] = last.in[2]}
        IN  /\ Len(last.out) = Cardinality(hits)
            /\ \E pos \in [1..Len(last.out) -> hits] :
                  /\ \A k \in 1..Len(last.out) : k > 1 => pos[k - 1] < pos[k]
                  /\ \A k \in 1..Len(last.out) : last.out[k] = mgr.expenses[pos[k]]

C14_FilterStep == last'.op = "filter" => mgr' = mgr /\ file' = file

C14_FilterByMonth == []C14_FilterResult /\ [][C14_FilterStep]_vars

\* C14 witness: of two records of different months the query returned the
\* second alone.
C14_Witness ==
    /\ last.op = "filter" /\ Len(mgr.expenses) = 2 /\ Len(last.out) = 1
    /\ last.out[1] = mgr.expenses[2]

\* C15: no method of a manager takes a category out of its category set, and
\* the set holds the category of every record of the collection.
C15_CategoriesHeld == Categories(mgr.expenses) \subseteq mgr.categories

C15_CategoriesKept == mgr.categories \subseteq mgr'.categories

C15_CategoriesGrow == []C15_CategoriesHeld /\ [][C15_CategoriesKept]_vars

\* C15 witness: the only record of category Rent has been deleted and Rent is
\* still a known category.
C15_Witness ==
    /\ last.op = "delete" /\ last.found
    /\ <<"Rent">> \in mgr.categories
    /\ <<"Rent">> \notin Categories(mgr.expenses)

\* The file of a section of a user.
FileOf(d, username, section) == d[get_storage(username, section)]

\* C16: an add, bulk add, update or delete through the manager of one section
\* of one user leaves the file of every other section of that user and of
\* every section of every other user as it was, and with it the records and
\* the category set a manager of that section has.
C16_IsolatedStep ==
    last'.op \in Mutating =>
        \A u \in Usernames, s \in Sections :
            (u # sess.username \/ s # sess.section) =>
                /\ FileOf(disk', u, s) = FileOf(disk, u, s)
                /\ SectionManager(FileOf(disk', u, s))
                     = SectionManager(FileOf(disk, u, s))

C16_SectionsIsolated == [][C16_IsolatedStep]_vars

\* C16 witness: a user added a record in one section, switched to another
\* and added one there; the first section still holds its record.
C16_Witness ==
    /\ last.op = "add" /\ sess.section = "family"
    /\ Len(FileOf(disk, sess.username, "family")) = 2
    /\ Len(FileOf(disk, sess.username, "personal")) = 2

\* A row of five fields whose id, date and amount parse.
WellFormed(row) ==
    /\ Len(row) = 5
    /\ IntParses(row[1]) /\ IsoParses(row[2]) /\ FloatParses(row[5])

\* C17: load_all never raises because of a row; the records it returns are
\* those of the well-formed rows below the header, one for one and in file
\* order, every other row being skipped; none when there is no file.
C17_LoadSkipsMalformed ==
    last.op = "init" =>
        LET good == IF file = <<>> THEN <<>> ELSE SelectSeq(Tail(file), WellFormed)
        IN  /\ ~last.raised
            /\ Len(mgr.expenses) = Len(good)
            /\ \A k \in 1..Len(good) :
                  /\ mgr.expenses[k].id = good[k][1].n
                  /\ mgr.expenses[k].date = fromisoformat(good[k][2])
                  /\ mgr.expenses[k].category = good[k][3].s
                  /\ mgr.expenses[k].description = good[k][4].s
                  /\ mgr.expenses[k].amount = FloatOf(good[k][5])

\* Every amount has at most two digits after the point.
TwoDecimals(expenses) ==
    \A k \in 1..Len(expenses) :
        expenses[k].amount # NaN /\ expenses[k].amount % 10 = 0

\* C18: after save_all of records whose amounts have at most two decimals,
\* load_all returns the same records, field for field and in order, and
\* save_all of what was loaded writes the same file.
C18_RoundTrip ==
    (last.op = "save" /\ TwoDecimals(last.out)) =>
        /\ ~load_raises(file)
        /\ load_all(file) = last.out
        /\ save_all(file, load_all(file), "ok").f = file

\* The four checks of a row, as the claims word them.
DateOk(c) == IsStr(c.date) /\ IsoParses(c.date)

AmountOk(c) ==
    FloatParses(c.amount) /\ FloatOf(c.amount) # NaN /\ FloatOf(c.amount) > 0

CategoryOk(c) == IsStr(c.category) /\ Strip(TextOf(c.category)) # <<>>

DescriptionOk(c) == IsStr(c.description) /\ Strip(TextOf(c.description)) # <<>>

Passes(c) == DateOk(c) /\ AmountOk(c) /\ CategoryOk(c) /\ DescriptionOk(c)

\* C19: the valid rows validate_expenses returns are, in order, the rows whose
\* date parses, whose amount is a number above zero and whose category and
\* description are not blank; every other row has exactly one message, with
\* its row number counted from 1, so that valid rows and messages together
\* are as many as the rows; a failing row does not end the validation.
C19_ValidatePartitions ==
    last.op = "validate" =>
        LET failing == {i \in 1..Len(last.data) : ~Passes(last.data[i])}
        IN  /\ last.out = SelectSeq(last.data, Passes)
            /\ Len(last.out) + Len(last.errors) = Len(last.data)
            /\ Len(last.errors) = Cardinality(failing)
            /\ {last.errors[k].row : k \in 1..Len(last.errors)} = failing

\* The reason the first failing check gives.
FirstFailing(c) ==
    IF ~DateOk(c) THEN "Invalid date format"
    ELSE IF ~AmountOk(c) THEN "Amount must be positive"
    ELSE IF ~CategoryOk(c) THEN "Category cannot be empty"
    ELSE "Item/Description cannot be empty"

\* C20: the message of a row names the first check the row fails, in the
\* order date, amount, category, description.  (The message of an exception
\* raised by a value that is no text is let pass.)
C20_FirstFailingCheck ==
    last.op = "validate" =>
        \A k \in 1..Len(last.errors) :
            \/ last.errors[k].reason = "exception"
            \/ last.errors[k].reason = FirstFailing(last.data[last.errors[k].row])

\* C21: parse_csv_file raises only when the file as a whole cannot be read;
\* a table that can be read comes back with one row per line, whatever a
\* line holds in its amount column.
C21_ParseRaisesOnFileOnly ==
    last.op = "parse" =>
        /\ last.raised <=> ~last.in[1]
        /\ ~last.raised => Len(last.out) = Len(last.in[3])

\* The first of the names that is a column, and none when none is.
FirstPresent(columns, names) ==
    LET present == {i \in 1..Len(names) : \E j \in 1..Len(columns) : columns[j] = names[i]}
    IN  IF present = {} THEN <<>>
        ELSE <<names[CHOOSE i \in present : \A k \in present : i <= k]>>

\* The column a name stands at.
ColumnOf(columns, name) == CHOOSE j \in 1..Len(columns) : columns[j] = name

\* C22: a table with the columns Cost and Item, or cost and item, parses to
\* the same rows (or fails alike) as the same table with these columns named
\* amount and description; with several of the names present, the amount is
\* that of the first present of cost, Cost, amount and the description that
\* of the first present of item, Item, description.
C22_HeaderSynonyms ==
    last.op = "parse" /\ last.in[1] =>
        LET columns == last.in[2]
            rows == last.in[3]
            amount == FirstPresent(columns, <<"cost", "Cost", "amount">>)
            description == FirstPresent(columns, <<"item", "Item", "description">>)
            canonical == parse_csv_file(Table(TRUE, HeaderCanonical, rows))
        IN  /\ columns \in {HeaderUpper, HeaderLower} =>
                  /\ last.raised = canonical.raised
                  /\ last.out = canonical.rows
            /\ ~last.raised =>
                  \A i \in 1..Len(rows) :
                      /\ amount # <<>> =>
                            LET c == rows[i][ColumnOf(columns, amount[1])]
                            IN  last.out[i].amount =
                                  (IF c.t = "nan" THEN NanCell ELSE FloatCell(FloatOf(c)))
                      /\ description # <<>> =>
                            last.out[i].description =
                                rows[i][ColumnOf(columns, description[1])]

\* C22 witness: a table with the columns Cost and Item beside cost and item
\* has been parsed, and the amount of its line is that of the column cost.
C22_Witness ==
    /\ last.op = "parse" /\ ~last.raised /\ Len(last.out) = 1
    /\ last.in[2][4] = "Cost" /\ last.in[2][5] = "cost"
    /\ last.out[1].amount = FloatCell(7000)

\* C23: monthly_summary of no records gives total 0, average per day 0, the
\* top category N/A and the top amount 0, and divides by no zero; of records
\* it gives as average the total divided by the number of distinct dates.
C23_SummaryAverage ==
    last.op = "summary" =>
        /\ last.stats.avg_per_day.den # 0
        /\ IF last.data = <<>>
           THEN /\ last.stats.total = 0
                /\ last.stats.avg_per_day.num = 0
                /\ last.stats.top_category = <<"N/A">>
                /\ last.stats.top_category_amount = 0
           ELSE last.stats.avg_per_day.num * Cardinality(Dates(last.data))
                    = last.stats.total * last.stats.avg_per_day.den

\* C23 witness: a summary of two records of one date.
C23_Witness ==
    /\ last.op = "summary" /\ Len(last.data) = 2
    /\ Cardinality(Dates(last.data)) = 1 /\ last.stats.total > 0

\* C23 witness: a summary of no records.
C23_WitnessEmpty == last.op = "summary" /\ last.data = <<>>

RECURSIVE SumValues(_)
SumValues(d) == IF d = <<>> THEN 0 ELSE Head(d)[2] + SumValues(Tail(d))

\* C24: the values of category_breakdown add up to the total of
\* monthly_summary, its keys are the categories of the records, each once,
\* and the call leaves the collection and the file as they were.
C24_BreakdownResult ==
    last.op = "summary" =>
        /\ SumValues(last.out) = last.stats.total
        /\ {last.out[i][1] : i \in 1..Len(last.out)} = Categories(last.data)
        /\ Len(last.out) = Cardinality(Categories(last.data))

C24_SummaryStep == last'.op = "summary" => mgr' = mgr /\ file' = file

C24_BreakdownSums == []C24_BreakdownResult /\ [][C24_SummaryStep]_vars

\* C24 witness: a breakdown of two records of one category.
C24_Witness ==
    /\ last.op = "summary" /\ Len(last.data) = 2 /\ Len(last.out) = 1
    /\ last.out[1][2] = last.data[1].amount + last.data[2].amount

\* What save_all would write for the manager's collection.
Image(m) == <<headers>> \o ToRows(m.expenses)

\* C25: when save_all fails in add_expense, update_expense or delete_expense
\* the call raises and the manager keeps the change - the collection, and for
\* add the categories and the next id - while the file has not taken it: a file
\* that was in step with the collection no longer is once the collection
\* changed.
C25_FailStep ==
    (last'.op \in {"add", "update", "delete"} /\ last'.writes = 1 /\ last'.io # "ok") =>
        /\ last'.raised
        /\ file' \in {file, <<>>}
        /\ last'.op = "add" =>
              /\ mgr'.expenses = Append(mgr.expenses,
                     Expense(mgr.next_id, last'.in[1], last'.in[2], last'.in[3], last'.in[4]))
              /\ mgr'.categories = mgr.categories \cup {last'.in[2]}
              /\ mgr'.next_id = mgr.next_id + 1
        /\ last'.op = "update" =>
              /\ Len(mgr'.expenses) = Len(mgr.expenses)
              /\ \E i \in 1..Len(mgr.expenses) :
                    /\ mgr.expenses[i].id = last'.id
                    /\ mgr'.expenses[i] =
                          Expense(last'.id, last'.in[1], last'.in[2], last'.in[3], last'.in[4])
        /\ last'.op = "delete" =>
              /\ last'.id \in Ids(mgr.expenses)
              /\ last'.id \notin Ids(mgr'.expenses)
        /\ (load_all(file) = mgr.expenses /\ mgr'.expenses # mgr.expenses) =>
              file' # Image(mgr')

C25_NoRollback == [][C25_FailStep]_vars

\* C25 witness: an add whose save_all raised, on a manager that was in step
\* with a file of one record.
C25_Witness ==
    /\ last.op = "add" /\ last.raised /\ Len(mgr.expenses) = 2
    /\ Len(load_all(file)) = 1 /\ mgr.next_id = 3

RowsOf(f) == {f[i] : i \in 1..Len(f)}

\* C26: with two managers over one file, a save writes the collection of the
\* manager that saves and nothing else: after an add through the second
\* manager the file is the header and the rows of what that manager held plus
\* its new record, and a record that only the first manager holds is not in
\* the file; likewise for the first manager.
C26_WriterStep ==
    /\ last'.op = "peer_add" =>
          /\ file' = <<headers>> \o ToRows(Append(sess.peer[1].expenses, last'.rec[1]))
          /\ file' = Image(sess'.peer[1])
          /\ \A i \in 1..Len(mgr.expenses) :
                to_row(mgr.expenses[i]) \notin RowsOf(ToRows(sess'.peer[1].expenses))
                    => to_row(mgr.expenses[i]) \notin RowsOf(file')
    /\ (last'.op = "add" /\ sess.peer # <<>>) =>
          /\ file' = <<headers>> \o ToRows(Append(mgr.expenses, last'.rec[1]))
          /\ \A i \in 1..Len(sess.peer[1].expenses) :
                to_row(sess.peer[1].expenses[i]) \notin RowsOf(ToRows(mgr'.expenses))
                    => to_row(sess.peer[1].expenses[i]) \notin RowsOf(file')

C26_LastWriterWins == [][C26_WriterStep]_vars

\* C26 witness: the second manager has added a record under an id the first
\* manager issued too, and the first manager's record of that id is not in the
\* file.
C26_Witness ==
    /\ last.op = "peer_add" /\ last.rec[1].id \in hist.issued
    /\ \E i \in 1..Len(mgr.expenses) :
          /\ mgr.expenses[i].id = last.rec[1].id
          /\ to_row(mgr.expenses[i]) \notin RowsOf(file)

\* C27: _on_update and _on_delete change or remove a record only through a
\* selection made in the section that is shown.
C27_SelectionStep ==
    (last'.op \in {"on_update", "on_delete"} /\ last'.found) =>
        sess.selected_in = sess.section

C27_SelectionOfShownSection == [][C27_SelectionStep]_vars

\* C28: Import All takes rows only when validate_data has run since the last
\* file was picked in the window, be it loaded or not.
C28_ImportStep == last'.op = "import_all" => ~sess.stale

C28_ImportsValidatedFile == [][C28_ImportStep]_vars

\* C29: bulk_add_expenses on the valid rows validate_expenses returned adds
\* every one of them and returns (their number, 0); validate_expenses leaves
\* the collection and the file as they were and hands on rows of its input.
C29_IngestStep ==
    (last.op = "validate" /\ last'.op = "bulk_add" /\ last'.data = last.out) =>
        /\ last'.counts = <<Len(last.out), 0>>
        /\ Len(mgr'.expenses) = Len(mgr.expenses) + Len(last.out)

C29_ValidateStep ==
    last'.op = "validate" =>
        /\ mgr' = mgr /\ file' = file
        /\ \A i \in 1..Len(last'.out) :
              \E j \in 1..Len(last'.data) : last'.out[i] = last'.data[j]

C29_ValidThenAdded == [][C29_IngestStep /\ C29_ValidateStep]_vars

\* C29 witness: two rows that passed validate_expenses were added.
C29_Witness ==
    /\ last.op = "bulk_add" /\ Len(last.data) = 2 /\ last.counts = <<2, 0>>
    /\ Len(mgr.expenses) = 2

\* C30: a successful add, bulk add, update or delete that writes the file
\* leaves in it every row load_all skipped as malformed, and gives no new
\* record the id of such a row.
C30_KeepStep ==
    (last'.op \in Mutating /\ ~last'.raised /\ last'.writes > 0) =>
        \A i \in 2..Len(file) :
            ~WellFormed(file[i]) =>
                /\ file[i] \in RowsOf(file')
                /\ (Len(file[i]) >= 1 /\ IntParses(file[i][1])) =>
                       file[i][1].n \notin last'.new

====
